---- MODULE Spec2Model ----
(***************************************************************************)
(* Verification model of the GVR C++ wrapper layer (gvr.h, gvr_types.h,    *)
(* gvr_controller.h) and of the lifecycle of the demo applications.        *)
(*                                                                         *)
(* Part 1 (SpecWrap): lifetime of the owning C++ wrappers: construction,   *)
(* move construction, move assignment, destruction, Reset() and release(). *)
(* Part 2 (SpecApp): the demo applications: lifecycle callbacks on the UI  *)
(* thread, GL callbacks on the rendering thread, the audio worker thread.  *)
(***************************************************************************)
EXTENDS Integers, Sequences, FiniteSets, TLC

\* ------------------------------------------------------------------------
\* Bounds
\* ------------------------------------------------------------------------
MaxObjs == 3
MaxHandles == 2

\* ------------------------------------------------------------------------
\* Part 1: wrapper classes
\* ------------------------------------------------------------------------
VARIABLES
  cls,          \* the wrapper class the C++ objects of this run belong to
  objs,         \* C++ objects: lifetime state and member fields
  nh,           \* number of C handles returned by the create function so far
  dcount,       \* per C handle: number of destroy / release calls received
  wildDestroy,  \* a destroy function received a pointer no create returned
  callerOwned,  \* handles whose ownership is with the caller of the wrapper
  lastOp        \* the wrapper operation executed last

wrapVars == <<cls, objs, nh, dcount, wildDestroy, callerOwned, lastOp>>

\* ------------------------------------------------------------------------
\* Part 2: state of a demo application (declared here, modelled below)
\* ------------------------------------------------------------------------
VARIABLES
  app,           \* which demo application this run is
  pstate,        \* the process: "running", "aborted" or "destroyed"
  cb,            \* per host thread: the callback in progress, or "none"
  step,          \* per host thread: position inside that callback
  resumed,       \* the activity is between onResume and onPause
  lifecycle,     \* number of OnResume / OnPause callbacks delivered
  surfaces,      \* number of OnSurfaceCreated callbacks delivered
  frames,        \* number of OnDrawFrame callbacks delivered
  surfaceReady,  \* an OnSurfaceCreated callback has returned
  gvr_api_initialized_,  \* DemoApp::gvr_api_initialized_
  tracking,      \* head tracking: "initial", "resumed" or "paused"
  viewer,        \* gvr_viewer_type_
  ctrl,          \* the ControllerApi object: "null", "created", "inited"
  ctrlResumed,   \* the ControllerApi object is resumed
  ctrlMisuse,    \* a ControllerApi method other than Init() was called on
                 \* an object whose Init() had not returned true
  ctrlNullDeref, \* a ControllerApi method was called through the pointer
                 \* while the pointer was null
  badShaders,    \* shader names whose handle is 0 (compilation failed)
  badPrograms,   \* program names that are not successfully linked
  gl_error,      \* GL error codes recorded and not yet fetched
  failedInit,    \* a shader, program or asset failed during initialisation
  audio,         \* audio_initialization_thread_
  threadsStarted,  \* number of std::thread objects started with a function
  frame,         \* the gvr::Frame of the draw callback
  fbound,        \* a buffer of the frame was bound for drawing
  renderedAfterFailure, \* a frame was rendered after a failed initialisation
  controllers,   \* Controllers::controllers_.size()
  controller_on_target_index_,  \* HelloVrBetaApp::controller_on_target_index_
  target_held_,  \* HelloVrBetaApp::target_held_
  indexOutOfRange  \* GetController() was called with an index that is not
                   \* below controllers_.size()

ctlVars == <<app, pstate, cb, step>>
hostVars == <<resumed, lifecycle, surfaces, frames, surfaceReady>>
trackVars == <<gvr_api_initialized_, tracking>>
ctrlVars == <<viewer, ctrl, ctrlResumed, ctrlMisuse, ctrlNullDeref>>
glVars == <<badShaders, badPrograms, gl_error, failedInit>>
audioVars == <<audio, threadsStarted>>
frameVars == <<frame, fbound, renderedAfterFailure>>
betaVars ==
  <<controllers, controller_on_target_index_, target_held_, indexOutOfRange>>
appVars ==
  <<ctlVars, hostVars, trackVars, ctrlVars, glVars, audioVars, frameVars,
    betaVars>>

Threads == {"ui", "render"}

\* The application part of the state while only the wrappers are exercised.
AppParked ==
  /\ app = "none" /\ pstate = "parked"
  /\ cb = [t \in Threads |-> "none"] /\ step = [t \in Threads |-> 1]
  /\ resumed = FALSE /\ lifecycle = 0 /\ surfaces = 0 /\ frames = 0
  /\ surfaceReady = FALSE
  /\ gvr_api_initialized_ = FALSE /\ tracking = "initial"
  /\ viewer = "NA" /\ ctrl = "null" /\ ctrlResumed = FALSE
  /\ ctrlMisuse = FALSE /\ ctrlNullDeref = FALSE
  /\ badShaders = {} /\ badPrograms = {} /\ gl_error = {}
  /\ failedInit = FALSE
  /\ audio = "none" /\ threadsStarted = 0
  /\ frame = "none" /\ fbound = FALSE /\ renderedAfterFailure = FALSE
  /\ controllers = 0 /\ controller_on_target_index_ = 0 - 1
  /\ target_held_ = FALSE /\ indexOutOfRange = FALSE

ObjIds == 1..MaxObjs
Handles == 1..MaxHandles
nullptr == 0
\* a pointer value that no create function returned
Wild == 0 - 1

\* Classes whose destructor is `if (ptr) destroy(&ptr)` and whose move
\* constructor null-initialises the pointer before swapping.
OwningClasses ==
  {"BufferViewport", "BufferViewportList", "BufferSpec", "SwapChain",
   "RenderParamsList", "WrapperBase"}

MovableClasses ==
  OwningClasses \cup {"FramebufferSpec", "OffscreenFramebufferHandle"}

Classes == MovableClasses \cup {"GvrApi"}

\* Classes that carry a context_ member next to the wrapped handle.
HasContext(c) ==
  c \in {"BufferViewportList", "RenderParamsList",
         "OffscreenFramebufferHandle"}

Unborn == [st |-> "unborn", ptr |-> nullptr, ctx |-> 0, owned |-> FALSE]

\* (mutant) every move constructor leaves the pointer member uninitialised
MoveCtorInitPtrUninit(c) == (0..nh) \cup {Wild}

\* Value of the pointer member when the body of the move constructor starts.
\* FramebufferSpec has no member initialiser: the value is indeterminate.
MoveCtorInitPtr(c) ==
  IF c = "FramebufferSpec" THEN (0..nh) \cup {Wild} ELSE {nullptr}

\* The C destroy / release function applied to pointer p.
DestroyCalled(p) ==
  /\ dcount' = IF p \in Handles THEN [dcount EXCEPT ![p] = @ + 1] ELSE dcount
  /\ wildDestroy' = (wildDestroy \/ p = Wild)

NoDestroyCalled == UNCHANGED <<dcount, wildDestroy>>

\* (mutant) every destructor destroys whatever non-null pointer it holds
DtorDestroysAnyNonNull(c, o) == o.ptr # nullptr

\* Whether the destructor of class c hands its pointer to the destroy function.
DtorDestroys(c, o) ==
  CASE c \in OwningClasses -> o.ptr # nullptr
    [] c = "FramebufferSpec" -> TRUE
    [] c = "OffscreenFramebufferHandle" -> FALSE
    [] c = "GvrApi" -> o.ptr # nullptr /\ o.owned

\* OffscreenFramebufferHandle::Reset releases iff context_ && handle_.
ResetReleases(o) == o.ctx # 0 /\ o.ptr # 0

\* Constructor from a gvr_context: calls the create function, which returns
\* a fresh handle or null.
Construct(i) ==
  /\ cls \in MovableClasses
  /\ objs[i].st = "unborn"
  /\ \E ok \in BOOLEAN :
       /\ ok => nh < MaxHandles
       /\ nh' = IF ok THEN nh + 1 ELSE nh
       /\ objs' = [objs EXCEPT ![i] =
                     [st |-> "alive", ptr |-> IF ok THEN nh + 1 ELSE nullptr,
                      ctx |-> IF HasContext(cls) THEN 1 ELSE 0,
                      owned |-> TRUE]]
  /\ lastOp' = "Construct"
  /\ NoDestroyCalled
  /\ UNCHANGED <<cls, callerOwned>>
  /\ UNCHANGED appVars

\* T(T&& other): members initialised, then swapped with other's.
MoveConstruct(i, j) ==
  /\ cls \in MovableClasses
  /\ i # j
  /\ objs[i].st = "unborn"
  /\ objs[j].st = "alive"
  /\ \E g \in MoveCtorInitPtr(cls) :
       objs' = [objs EXCEPT
                  ![i] = [st |-> "alive", ptr |-> objs[j].ptr,
                          ctx |-> objs[j].ctx, owned |-> TRUE],
                  ![j] = [@ EXCEPT !.ptr = g, !.ctx = 0]]
  /\ lastOp' = "MoveConstruct"
  /\ NoDestroyCalled
  /\ UNCHANGED <<cls, nh, callerOwned>>
  /\ UNCHANGED appVars

\* T& operator=(T&& other): swap; OffscreenFramebufferHandle first Reset()s
\* the target unless it is a self-assignment.
MoveAssign(i, j) ==
  /\ cls \in MovableClasses
  /\ objs[i].st = "alive"
  /\ objs[j].st = "alive"
  /\ IF cls = "OffscreenFramebufferHandle"
       THEN IF i # j
              THEN /\ IF ResetReleases(objs[i])
                        THEN DestroyCalled(objs[i].ptr)
                        ELSE NoDestroyCalled
                   /\ objs' = [objs EXCEPT
                                 ![i] = [@ EXCEPT !.ptr = objs[j].ptr,
                                                  !.ctx = objs[j].ctx],
                                 ![j] = [@ EXCEPT !.ptr = 0, !.ctx = 0]]
              ELSE /\ NoDestroyCalled
                   /\ UNCHANGED objs
       ELSE /\ NoDestroyCalled
            /\ objs' = [objs EXCEPT
                          ![i] = [@ EXCEPT !.ptr = objs[j].ptr,
                                           !.ctx = objs[j].ctx],
                          ![j] = [@ EXCEPT !.ptr = objs[i].ptr,
                                           !.ctx = objs[i].ctx]]
  /\ lastOp' = "MoveAssign"
  /\ UNCHANGED <<cls, nh, callerOwned>>
  /\ UNCHANGED appVars

\* ~T()
Destroy(i) ==
  /\ objs[i].st = "alive"
  /\ IF DtorDestroys(cls, objs[i])
       THEN DestroyCalled(objs[i].ptr)
       ELSE NoDestroyCalled
  /\ objs' = [objs EXCEPT ![i] =
                [@ EXCEPT !.st = "dead",
                          !.ptr = IF DtorDestroys(cls, objs[i])
                                    THEN nullptr ELSE @]]
  /\ lastOp' = "Destroy"
  /\ UNCHANGED <<cls, nh, callerOwned>>
  /\ UNCHANGED appVars

\* OffscreenFramebufferHandle::Reset()
Reset(i) ==
  /\ cls = "OffscreenFramebufferHandle"
  /\ objs[i].st = "alive"
  /\ IF ResetReleases(objs[i])
       THEN DestroyCalled(objs[i].ptr)
       ELSE NoDestroyCalled
  /\ objs' = [objs EXCEPT ![i] = [@ EXCEPT !.ptr = 0, !.ctx = 0]]
  /\ lastOp' = "Reset"
  /\ UNCHANGED <<cls, nh, callerOwned>>
  /\ UNCHANGED appVars

\* WrapperBase::release(): ownership of the C object goes to the caller.
Release(i) ==
  /\ cls = "WrapperBase"
  /\ objs[i].st = "alive"
  /\ callerOwned' = IF objs[i].ptr # nullptr
                      THEN callerOwned \cup {objs[i].ptr}
                      ELSE callerOwned
  /\ objs' = [objs EXCEPT ![i] = [@ EXCEPT !.ptr = nullptr]]
  /\ lastOp' = "Release"
  /\ NoDestroyCalled
  /\ UNCHANGED <<cls, nh>>
  /\ UNCHANGED appVars

\* GvrApi::Create(): gvr_create() returns a context or null; on null no
\* GvrApi object comes into existence.
GvrCreate(i) ==
  /\ cls = "GvrApi"
  /\ objs[i].st = "unborn"
  /\ \E ok \in BOOLEAN :
       /\ ok => nh < MaxHandles
       /\ nh' = IF ok THEN nh + 1 ELSE nh
       /\ objs' = IF ok
                    THEN [objs EXCEPT ![i] =
                            [st |-> "alive", ptr |-> nh + 1, ctx |-> 0,
                             owned |-> TRUE]]
                    ELSE objs
  /\ lastOp' = "Create"
  /\ NoDestroyCalled
  /\ UNCHANGED <<cls, callerOwned>>
  /\ UNCHANGED appVars

\* GvrApi::WrapNonOwned(context): the context stays with the caller.  It is
\* a context the caller created itself or one it obtained from elsewhere.
GvrWrapNonOwned(i) ==
  /\ cls = "GvrApi"
  /\ objs[i].st = "unborn"
  /\ \E c \in 1..(nh + 1) :
       /\ c <= MaxHandles
       /\ nh' = IF c > nh THEN c ELSE nh
       /\ callerOwned' = IF c > nh THEN callerOwned \cup {c} ELSE callerOwned
       /\ objs' = [objs EXCEPT ![i] =
                     [st |-> "alive", ptr |-> c, ctx |-> 0, owned |-> FALSE]]
  /\ lastOp' = "WrapNonOwned"
  /\ NoDestroyCalled
  /\ UNCHANGED cls
  /\ UNCHANGED appVars

WrapInit ==
  /\ cls \in Classes
  /\ objs = [i \in ObjIds |-> Unborn]
  /\ nh = 0
  /\ dcount = [h \in Handles |-> 0]
  /\ wildDestroy = FALSE
  /\ callerOwned = {}
  /\ lastOp = "none"

WrapNext ==
  \/ \E i \in ObjIds : Construct(i)
  \/ \E i, j \in ObjIds : MoveConstruct(i, j)
  \/ \E i, j \in ObjIds : MoveAssign(i, j)
  \/ \E i \in ObjIds : Destroy(i)
  \/ \E i \in ObjIds : Reset(i)
  \/ \E i \in ObjIds : Release(i)
  \/ \E i \in ObjIds : GvrCreate(i)
  \/ \E i \in ObjIds : GvrWrapNonOwned(i)

\* ------------------------------------------------------------------------
\* Part 2 (SpecApp): the demo applications.  The host delivers lifecycle
\* callbacks on the UI thread and GL callbacks on the rendering thread; each
\* callback is the sequence of the state-changing calls of its handler.
\* ------------------------------------------------------------------------
Apps ==
  {"ControllerPaint", "TreasureHuntNdkBeta", "TreasureHuntNdk",
   "TreasureHuntSample", "HelloVr", "HelloVrBeta"}

Callbacks ==
  {"OnResume", "OnPause", "OnSurfaceCreated", "OnDrawFrame", "Destructor"}

\* Applications that pick the controller from the viewer type.
ViewerApps == {"TreasureHuntSample", "HelloVr"}

\* Applications that render through gvr::SwapChain / gvr::Frame.
UsesSwapChain(a) == a # "TreasureHuntNdkBeta"

\* (mutant) the lifecycle callbacks are delivered on the rendering thread
ThreadOfRenderOnly(c) == "render"

\* The thread a callback is delivered on.
ThreadOf(c) ==
  IF c \in {"OnSurfaceCreated", "OnDrawFrame"} THEN "render" ELSE "ui"

\* (mutant) CheckGLError aborts in every application
CheckGLErrorAbortsAlways(a) == TRUE

\* Whether CheckGLError(label) aborts the process on a recorded error.  The
\* ndk-beta renderer logs the value of a first glGetError() and asserts on a
\* second glGetError().
CheckGLErrorAborts(a) == a # "TreasureHuntNdkBeta"

Op(name, x, y) == <<name, x, y>>
LoadGLShader(s) == Op("LoadGLShader", s, "returns0")
BuildShader(s) == Op("LoadGLShader", s, "CHECK")
LinkProgram(p, ss) == Op("LinkProgram", p, ss)
BuildProgram(p, ss) == Op("BuildProgram", p, ss)
CheckGL == Op("CheckGLError", "", "")
LoadAsset(n) == Op("LoadAsset", n, "")
CtrlOp(name, when) == Op(name, when, "")
StartAudio == Op("StartAudioThread", "", "")
AcquireFrameOp == Op("AcquireFrame", "", "")
BindDrawOp == Op("BindDraw", "", "")
SubmitOp == Op("Submit", "", "")

\* Number of checked asset initialisations in a row, by application.
HelloVrAssets == 11
BetaControllerAssets == 4
BetaLaserAssets == 2
BetaSceneAssets == 5
LoadAssets(n) == [k \in 1..n |-> LoadAsset(k)]

\* TreasureHuntRenderer::InitializeGl of ndk-beta.
InitializeGlNdkBeta ==
  <<LoadGLShader("vertex"), LoadGLShader("grid"),
    LoadGLShader("passthrough"),
    LinkProgram("cube", {"vertex", "passthrough"}), CheckGL,
    LinkProgram("floor", {"vertex", "grid"}), CheckGL, CheckGL,
    StartAudio>>

\* TreasureHuntRenderer::InitializeGl of ndk and of samples.
InitializeGlTreasureHunt ==
  <<LoadGLShader("vertex"), LoadGLShader("grid"),
    LoadGLShader("passthrough"), LoadGLShader("reticle_vertex"),
    LoadGLShader("reticle_fragment"),
    LinkProgram("cube", {"vertex", "passthrough"}), CheckGL,
    LinkProgram("floor", {"vertex", "grid"}), CheckGL, CheckGL,
    LinkProgram("reticle", {"reticle_vertex", "reticle_fragment"}),
    CheckGL, CheckGL,
    StartAudio>>

\* HelloVrApp::OnSurfaceCreated.
OnSurfaceCreatedHelloVr ==
  <<LoadGLShader("reticle_vertex"), LoadGLShader("reticle_fragment"),
    LoadGLShader("obj_vertex"), LoadGLShader("obj_fragment"),
    LinkProgram("obj", {"obj_vertex", "obj_fragment"}), CheckGL, CheckGL>>
  \o LoadAssets(HelloVrAssets) \o
  <<LinkProgram("reticle", {"reticle_vertex", "reticle_fragment"}),
    CheckGL, CheckGL,
    StartAudio>>

\* ShaderProgram::Link: compile both shaders into the locals vertex_shader
\* and fragment_shader, attach, link, use.
ShaderLink(p) ==
  <<LoadGLShader("vertex_shader"), LoadGLShader("fragment_shader"),
    LinkProgram(p, {"vertex_shader", "fragment_shader"})>>

\* HelloVrBetaApp::OnSurfaceCreated, with Controllers::Initialize inlined.
OnSurfaceCreatedHelloVrBeta ==
  <<Op("CheckFeature", "", "")>> \o
  ShaderLink("shader") \o ShaderLink("alpha_shader") \o
  <<CheckGL, CheckGL>> \o
  ShaderLink("controller_shader") \o LoadAssets(BetaControllerAssets) \o
  ShaderLink("laser_shader") \o LoadAssets(BetaLaserAssets) \o
  <<CtrlOp("CtrlResume", "always")>> \o
  LoadAssets(BetaSceneAssets) \o
  <<StartAudio>>

\* DemoApp::OnSurfaceCreated of controllerpaint.
OnSurfaceCreatedControllerPaint ==
  <<CtrlOp("CtrlNew", "always"), CtrlOp("CtrlInit", "always"),
    CtrlOp("CtrlResume", "always"),
    BuildShader("vertex"), BuildShader("fragment"),
    BuildProgram("shader", {"vertex", "fragment"}), CheckGL,
    LoadAsset(1), LoadAsset(2), CheckGL,
    Op("SetInitialized", "", "")>>

\* ResumeControllerApiAsNeeded of HelloVrApp and of the samples renderer.
ResumeControllerApiAsNeeded ==
  <<CtrlOp("CtrlReset", "ifCardboard"),
    CtrlOp("CtrlNew", "ifDaydreamNoCtrl"),
    CtrlOp("CtrlInit", "ifDaydreamCreated"),
    CtrlOp("CtrlResume", "ifDaydream")>>

\* The draw callback: acquire a frame, read the controller, bind and draw,
\* submit, check the GL error state.
DrawFrameOps(a) ==
  CASE a = "ControllerPaint" ->
         <<CtrlOp("CtrlUpdate", "always"), AcquireFrameOp, BindDrawOp,
           SubmitOp>>
    [] a = "HelloVrBeta" ->
         <<AcquireFrameOp, CtrlOp("CtrlUpdate", "always"),
           Op("ControllersUpdate", "", ""),
           BindDrawOp, Op("DrawTarget", "", ""), SubmitOp, CheckGL>>
    [] a \in ViewerApps ->
         <<AcquireFrameOp, CtrlOp("CtrlUpdate", "ifDaydream"), BindDrawOp,
           SubmitOp, CheckGL>>
    [] a = "TreasureHuntNdk" ->
         <<AcquireFrameOp, BindDrawOp, SubmitOp, CheckGL>>
    [] OTHER -> <<BindDrawOp, SubmitOp, CheckGL>>

OnPauseOps(a) ==
  <<Op("PauseTracking",
       IF a = "ControllerPaint" THEN "ifInitialized" ELSE "always", "")>> \o
  (IF a \in {"ControllerPaint", "TreasureHuntSample", "HelloVr",
             "HelloVrBeta"}
     THEN <<CtrlOp("CtrlPause", "ifCtrl")>> ELSE <<>>) \o
  (IF a = "HelloVrBeta" THEN <<Op("ClearControllers", "", "")>> ELSE <<>>)

OnResumeOps(a) ==
  <<Op("ResumeTracking",
       IF a = "ControllerPaint" THEN "ifInitialized" ELSE "always", "")>> \o
  (CASE a = "ControllerPaint" -> <<CtrlOp("CtrlResume", "ifCtrl")>>
     [] a = "HelloVrBeta" -> <<CtrlOp("CtrlResume", "always")>>
     [] a \in ViewerApps ->
          <<Op("ReadViewerType", "", "")>> \o ResumeControllerApiAsNeeded
     [] OTHER -> <<>>)

OnSurfaceCreatedOps(a) ==
  CASE a = "ControllerPaint" -> OnSurfaceCreatedControllerPaint
    [] a = "TreasureHuntNdkBeta" -> InitializeGlNdkBeta
    [] a = "HelloVr" -> OnSurfaceCreatedHelloVr
    [] a = "HelloVrBeta" -> OnSurfaceCreatedHelloVrBeta
    [] OTHER -> InitializeGlTreasureHunt

\* The destructor: the two oldest renderers join unconditionally, the later
\* ones join if joinable(), DemoApp has no thread.
DestructorOps(a) ==
  CASE a = "ControllerPaint" -> <<>>
    [] a \in {"TreasureHuntNdkBeta", "TreasureHuntNdk"} ->
         <<Op("JoinAudio", "always", "")>>
    [] OTHER -> <<Op("JoinAudio", "ifJoinable", "")>>

Prog(a, c) ==
  CASE c = "OnResume" -> OnResumeOps(a)
    [] c = "OnPause" -> OnPauseOps(a)
    [] c = "OnSurfaceCreated" -> OnSurfaceCreatedOps(a)
    [] c = "OnDrawFrame" -> DrawFrameOps(a)
    [] c = "Destructor" -> DestructorOps(a)
    [] OTHER -> <<>>

\* ------------------------------------------------------------------------
\* Bounds on the callbacks the host delivers
\* ------------------------------------------------------------------------
MaxLifecycle == 2
MaxSurfaces == 2
MaxFrames == 2
\* Largest value gvr_controller_api_->GetControllerCount() returns.
MaxControllers == 1

Cur(t) == Prog(app, cb[t])[step[t]]
InCallback(t) == pstate = "running" /\ cb[t] # "none"
AtOp(t, name) ==
  /\ InCallback(t)
  /\ step[t] <= Len(Prog(app, cb[t]))
  /\ Cur(t)[1] = name

\* The call returned: the handler goes on with its next statement.
Continue(t) ==
  /\ pstate' = pstate
  /\ step' = [step EXCEPT ![t] = @ + 1]
  /\ UNCHANGED <<app, cb>>

\* abort(), a failed assert or std::terminate: the process is gone.
Abort ==
  /\ pstate' = "aborted"
  /\ UNCHANGED <<app, cb, step>>

\* The condition the handler puts in front of a call.
When(w) ==
  CASE w = "always" -> TRUE
    [] w = "ifInitialized" -> gvr_api_initialized_
    [] w = "ifCtrl" -> ctrl # "null"
    [] w = "ifCardboard" -> viewer = "CARDBOARD"
    [] w = "ifDaydream" -> viewer = "DAYDREAM"
    [] w = "ifDaydreamNoCtrl" -> viewer = "DAYDREAM" /\ ctrl = "null"
    [] w = "ifDaydreamCreated" -> viewer = "DAYDREAM" /\ ctrl = "created"
    [] OTHER -> FALSE

\* What the host allows next: onResume and onPause alternate, the surface is
\* created before frames are drawn, the object is deleted when no callback
\* is in progress.
HostAllows(c) ==
  CASE c = "OnResume" -> ~resumed /\ lifecycle < MaxLifecycle
    [] c = "OnPause" -> resumed /\ lifecycle < MaxLifecycle
    [] c = "OnSurfaceCreated" -> surfaces < MaxSurfaces
    [] c = "OnDrawFrame" -> surfaceReady /\ frames < MaxFrames
    [] c = "Destructor" -> \A t \in Threads : cb[t] = "none"
    [] OTHER -> FALSE

\* The host starts callback c on its thread.
Begin(c) ==
  /\ pstate = "running"
  /\ cb[ThreadOf(c)] = "none"
  /\ \A t \in Threads : cb[t] # "Destructor"
  /\ HostAllows(c)
  /\ cb' = [cb EXCEPT ![ThreadOf(c)] = c]
  /\ step' = [step EXCEPT ![ThreadOf(c)] = 1]
  /\ resumed' = CASE c = "OnResume" -> TRUE
                  [] c = "OnPause" -> FALSE
                  [] OTHER -> resumed
  /\ lifecycle' = IF c \in {"OnResume", "OnPause"}
                    THEN lifecycle + 1 ELSE lifecycle
  /\ surfaces' = IF c = "OnSurfaceCreated" THEN surfaces + 1 ELSE surfaces
  /\ frames' = IF c = "OnDrawFrame" THEN frames + 1 ELSE frames
  /\ surfaceReady' = IF c = "OnSurfaceCreated" THEN FALSE ELSE surfaceReady
  /\ failedInit' = IF c = "OnSurfaceCreated" THEN FALSE ELSE failedInit
  /\ UNCHANGED <<app, pstate, trackVars, ctrlVars, audioVars, frameVars>>
  /\ UNCHANGED <<badShaders, badPrograms, gl_error>>
  /\ UNCHANGED wrapVars
  /\ UNCHANGED betaVars

\* The handler returns.
End(t) ==
  /\ InCallback(t)
  /\ step[t] > Len(Prog(app, cb[t]))
  /\ cb' = [cb EXCEPT ![t] = "none"]
  /\ step' = [step EXCEPT ![t] = 1]
  /\ surfaceReady' = (surfaceReady \/ cb[t] = "OnSurfaceCreated")
  /\ pstate' = IF cb[t] = "Destructor" THEN "destroyed" ELSE pstate
  /\ UNCHANGED <<app, resumed, lifecycle, surfaces, frames>>
  /\ UNCHANGED <<trackVars, ctrlVars, glVars, audioVars, frameVars>>
  /\ UNCHANGED wrapVars
  /\ UNCHANGED betaVars

\* LoadGLShader returns 0 when compilation fails; Utils::BuildShader CHECKs.
StepLoadGLShader(t) ==
  /\ AtOp(t, "LoadGLShader")
  /\ \E ok \in BOOLEAN :
       /\ badShaders' = IF ok THEN badShaders \ {Cur(t)[2]}
                              ELSE badShaders \cup {Cur(t)[2]}
       /\ failedInit' = (failedInit \/ ~ok)
       /\ IF ~ok /\ Cur(t)[3] = "CHECK" THEN Abort ELSE Continue(t)
  /\ UNCHANGED <<badPrograms, gl_error>>
  /\ UNCHANGED <<hostVars, trackVars, ctrlVars, audioVars, frameVars>>
  /\ UNCHANGED wrapVars
  /\ UNCHANGED betaVars

\* glCreateProgram, glAttachShader x2, glLinkProgram, glUseProgram without a
\* status check.  Attaching shader 0 records GL_INVALID_VALUE, using a
\* program that is not linked records GL_INVALID_OPERATION.
StepLinkProgram(t) ==
  /\ AtOp(t, "LinkProgram")
  /\ \E linkOk \in BOOLEAN :
       LET attachBad == Cur(t)[3] \cap badShaders # {}
           linked == linkOk /\ ~attachBad
       IN  /\ badPrograms' = IF linked THEN badPrograms \ {Cur(t)[2]}
                                       ELSE badPrograms \cup {Cur(t)[2]}
           /\ gl_error' = gl_error
                \cup (IF attachBad THEN {"GL_INVALID_VALUE"} ELSE {})
                \cup (IF linked THEN {} ELSE {"GL_INVALID_OPERATION"})
           /\ failedInit' = (failedInit \/ ~linked)
  /\ Continue(t)
  /\ UNCHANGED badShaders
  /\ UNCHANGED <<hostVars, trackVars, ctrlVars, audioVars, frameVars>>
  /\ UNCHANGED wrapVars
  /\ UNCHANGED betaVars

\* Utils::BuildProgram: link and CHECK the link status.
StepBuildProgram(t) ==
  /\ AtOp(t, "BuildProgram")
  /\ \E ok \in BOOLEAN :
       /\ badPrograms' = IF ok THEN badPrograms \ {Cur(t)[2]}
                               ELSE badPrograms \cup {Cur(t)[2]}
       /\ failedInit' = (failedInit \/ ~ok)
       /\ IF ok THEN Continue(t) ELSE Abort
  /\ UNCHANGED <<badShaders, gl_error>>
  /\ UNCHANGED <<hostVars, trackVars, ctrlVars, audioVars, frameVars>>
  /\ UNCHANGED wrapVars
  /\ UNCHANGED betaVars

\* CheckGLError(label) / CHECK(glGetError() == GL_NO_ERROR).  Where it does
\* not abort, the first glGetError() fetches one recorded code for the log
\* and the assert, when compiled in, calls glGetError() again: it fails only
\* if the implementation kept a second code.
StepCheckGLError(t) ==
  /\ AtOp(t, "CheckGLError")
  /\ IF gl_error = {}
       THEN Continue(t) /\ UNCHANGED gl_error
       ELSE IF CheckGLErrorAborts(app)
         THEN Abort /\ UNCHANGED gl_error
         ELSE \E e \in gl_error :
                \/ gl_error' = {} /\ Continue(t)
                \/ gl_error' = gl_error \ {e} /\ Continue(t)
                \/ gl_error \ {e} # {} /\ gl_error' = gl_error \ {e} /\ Abort
  /\ UNCHANGED <<badShaders, badPrograms, failedInit>>
  /\ UNCHANGED <<hostVars, trackVars, ctrlVars, audioVars, frameVars>>
  /\ UNCHANGED wrapVars
  /\ UNCHANGED betaVars

\* A mesh or texture Initialize() / LoadRawTextureFromAsset under CHECK.
StepLoadAsset(t) ==
  /\ AtOp(t, "LoadAsset")
  /\ \E ok \in BOOLEAN :
       /\ failedInit' = (failedInit \/ ~ok)
       /\ IF ok THEN Continue(t) ELSE Abort
  /\ UNCHANGED <<badShaders, badPrograms, gl_error>>
  /\ UNCHANGED <<hostVars, trackVars, ctrlVars, audioVars, frameVars>>
  /\ UNCHANGED wrapVars
  /\ UNCHANGED betaVars

\* HELLOVRBETA_CHECK(gvr_api_->IsFeatureSupported(GVR_FEATURE_MULTIVIEW)).
StepCheckFeature(t) ==
  /\ AtOp(t, "CheckFeature")
  /\ \E ok \in BOOLEAN : IF ok THEN Continue(t) ELSE Abort
  /\ UNCHANGED <<hostVars, trackVars, ctrlVars, glVars, audioVars, frameVars>>
  /\ UNCHANGED wrapVars
  /\ UNCHANGED betaVars

\* controller_api_.reset(new gvr::ControllerApi).
StepCtrlNew(t) ==
  /\ AtOp(t, "CtrlNew")
  /\ IF When(Cur(t)[2])
       THEN ctrl' = "created" /\ ctrlResumed' = FALSE
       ELSE UNCHANGED <<ctrl, ctrlResumed>>
  /\ Continue(t)
  /\ UNCHANGED <<viewer, ctrlMisuse, ctrlNullDeref>>
  /\ UNCHANGED <<hostVars, trackVars, glVars, audioVars, frameVars>>
  /\ UNCHANGED wrapVars
  /\ UNCHANGED betaVars

\* CHECK(controller_api_->Init(...)).
StepCtrlInit(t) ==
  /\ AtOp(t, "CtrlInit")
  /\ IF When(Cur(t)[2])
       THEN \E ok \in BOOLEAN :
              IF ok THEN ctrl' = "inited" /\ Continue(t)
                    ELSE UNCHANGED ctrl /\ Abort
       ELSE UNCHANGED ctrl /\ Continue(t)
  /\ UNCHANGED <<viewer, ctrlResumed, ctrlMisuse, ctrlNullDeref>>
  /\ UNCHANGED <<hostVars, trackVars, glVars, audioVars, frameVars>>
  /\ UNCHANGED wrapVars
  /\ UNCHANGED betaVars

\* gvr_controller_api_.reset().
StepCtrlReset(t) ==
  /\ AtOp(t, "CtrlReset")
  /\ IF When(Cur(t)[2])
       THEN ctrl' = "null" /\ ctrlResumed' = FALSE
       ELSE UNCHANGED <<ctrl, ctrlResumed>>
  /\ Continue(t)
  /\ UNCHANGED <<viewer, ctrlMisuse, ctrlNullDeref>>
  /\ UNCHANGED <<hostVars, trackVars, glVars, audioVars, frameVars>>
  /\ UNCHANGED wrapVars
  /\ UNCHANGED betaVars

\* A call of a ControllerApi method other than Init() through the pointer.
\* On an initialised object it has its effect.  On an object whose Init()
\* has not returned the call is made all the same; through a null pointer
\* the behaviour is undefined: the process crashes or goes on.
CtrlCall(t, resumedAfter) ==
  IF ~When(Cur(t)[2])
    THEN Continue(t) /\ UNCHANGED <<ctrlResumed, ctrlMisuse, ctrlNullDeref>>
    ELSE CASE ctrl = "inited" ->
                /\ ctrlResumed' = resumedAfter
                /\ Continue(t) /\ UNCHANGED <<ctrlMisuse, ctrlNullDeref>>
           [] ctrl = "created" ->
                /\ ctrlMisuse' = TRUE
                /\ Continue(t) /\ UNCHANGED <<ctrlResumed, ctrlNullDeref>>
           [] OTHER ->
                /\ ctrlNullDeref' = TRUE
                /\ (Continue(t) \/ Abort)
                /\ UNCHANGED <<ctrlResumed, ctrlMisuse>>

StepCtrlResume(t) ==
  /\ AtOp(t, "CtrlResume")
  /\ CtrlCall(t, TRUE)
  /\ UNCHANGED <<viewer, ctrl>>
  /\ UNCHANGED <<hostVars, trackVars, glVars, audioVars, frameVars>>
  /\ UNCHANGED wrapVars
  /\ UNCHANGED betaVars

StepCtrlPause(t) ==
  /\ AtOp(t, "CtrlPause")
  /\ CtrlCall(t, FALSE)
  /\ UNCHANGED <<viewer, ctrl>>
  /\ UNCHANGED <<hostVars, trackVars, glVars, audioVars, frameVars>>
  /\ UNCHANGED wrapVars
  /\ UNCHANGED betaVars

\* controller_state_.Update(*controller_api_).
StepCtrlUpdate(t) ==
  /\ AtOp(t, "CtrlUpdate")
  /\ CtrlCall(t, ctrlResumed)
  /\ UNCHANGED <<viewer, ctrl>>
  /\ UNCHANGED <<hostVars, trackVars, glVars, audioVars, frameVars>>
  /\ UNCHANGED wrapVars
  /\ UNCHANGED betaVars

\* gvr_viewer_type_ = gvr_api_->GetViewerType().
StepReadViewerType(t) ==
  /\ AtOp(t, "ReadViewerType")
  /\ viewer' \in {"CARDBOARD", "DAYDREAM"}
  /\ Continue(t)
  /\ UNCHANGED <<ctrl, ctrlResumed, ctrlMisuse, ctrlNullDeref>>
  /\ UNCHANGED <<hostVars, trackVars, glVars, audioVars, frameVars>>
  /\ UNCHANGED wrapVars
  /\ UNCHANGED betaVars

\* gvr_api_->ResumeTracking(), guarded by gvr_api_initialized_ in DemoApp.
StepResumeTracking(t) ==
  /\ AtOp(t, "ResumeTracking")
  /\ tracking' = IF When(Cur(t)[2]) THEN "resumed" ELSE tracking
  /\ Continue(t)
  /\ UNCHANGED gvr_api_initialized_
  /\ UNCHANGED <<hostVars, ctrlVars, glVars, audioVars, frameVars>>
  /\ UNCHANGED wrapVars
  /\ UNCHANGED betaVars

\* gvr_api_->PauseTracking().
StepPauseTracking(t) ==
  /\ AtOp(t, "PauseTracking")
  /\ tracking' = IF When(Cur(t)[2]) THEN "paused" ELSE tracking
  /\ Continue(t)
  /\ UNCHANGED gvr_api_initialized_
  /\ UNCHANGED <<hostVars, ctrlVars, glVars, audioVars, frameVars>>
  /\ UNCHANGED wrapVars
  /\ UNCHANGED betaVars

\* gvr_api_initialized_ = true.
StepSetInitialized(t) ==
  /\ AtOp(t, "SetInitialized")
  /\ gvr_api_initialized_' = TRUE
  /\ Continue(t)
  /\ UNCHANGED tracking
  /\ UNCHANGED <<hostVars, ctrlVars, glVars, audioVars, frameVars>>
  /\ UNCHANGED wrapVars
  /\ UNCHANGED betaVars

\* (mutant) a thread whose function has returned is no longer joinable
JoinableWhileRunning(a) == a = "running"

\* std::thread::joinable(): the object owns a thread that was not joined,
\* whether or not its function has returned.
Joinable(a) == a \in {"running", "done"}

\* (mutant) join() returns at once, as if the thread were detached
JoinReturnsAtOnce(a) == TRUE

\* std::thread::join() returns when the thread's function has returned.
JoinCompletes(a) == a = "done"

\* if (!audio_initialization_thread_.joinable())
\*   audio_initialization_thread_ = std::thread(&LoadAndPlay...Sound, this);
StepStartAudioThread(t) ==
  /\ AtOp(t, "StartAudioThread")
  /\ IF ~Joinable(audio)
       THEN audio' = "running" /\ threadsStarted' = threadsStarted + 1
       ELSE UNCHANGED <<audio, threadsStarted>>
  /\ Continue(t)
  /\ UNCHANGED <<hostVars, trackVars, ctrlVars, glVars, frameVars>>
  /\ UNCHANGED wrapVars
  /\ UNCHANGED betaVars

\* The worker's function (LoadAndPlayCubeSound / ...TargetObjectSound)
\* returns.
AudioRun ==
  /\ pstate = "running"
  /\ audio = "running"
  /\ audio' = "done"
  /\ UNCHANGED threadsStarted
  /\ UNCHANGED <<ctlVars, hostVars, trackVars, ctrlVars, glVars, frameVars>>
  /\ UNCHANGED wrapVars
  /\ UNCHANGED betaVars

\* The destructor's audio_initialization_thread_.join(), guarded by
\* joinable() or not.  join() on a thread that is not joinable throws out of
\* the destructor: std::terminate.  join() on a running thread blocks.
StepJoinAudio(t) ==
  /\ AtOp(t, "JoinAudio")
  /\ IF Joinable(audio)
       THEN /\ JoinCompletes(audio)
            /\ audio' = IF audio = "done" THEN "joined" ELSE audio
            /\ Continue(t)
       ELSE /\ UNCHANGED audio
            /\ IF Cur(t)[2] = "ifJoinable" THEN Continue(t) ELSE Abort
  /\ UNCHANGED threadsStarted
  /\ UNCHANGED <<hostVars, trackVars, ctrlVars, glVars, frameVars>>
  /\ UNCHANGED wrapVars
  /\ UNCHANGED betaVars

\* gvr::Frame frame = swapchain_->AcquireFrame(): the frame wraps whatever
\* gvr_swap_chain_acquire_frame returned, which is NULL on failure.
StepAcquireFrame(t) ==
  /\ AtOp(t, "AcquireFrame")
  /\ frame' \in {"valid", "invalid"}
  /\ fbound' = FALSE
  /\ Continue(t)
  /\ UNCHANGED renderedAfterFailure
  /\ UNCHANGED <<hostVars, trackVars, ctrlVars, glVars, audioVars>>
  /\ UNCHANGED wrapVars
  /\ UNCHANGED betaVars

\* frame.BindBuffer(0) (SetActive() of the offscreen framebuffer in ndk-beta)
\* and the drawing of both eyes, with the GL error checks made while
\* drawing.  Using a program that is not linked records
\* GL_INVALID_OPERATION.  Binding a buffer of a frame that is not valid
\* hands a null frame to the C API: the process crashes or goes on.
StepBindDraw(t) ==
  /\ AtOp(t, "BindDraw")
  /\ fbound' = TRUE
  /\ LET errs == gl_error \cup (IF badPrograms # {}
                                  THEN {"GL_INVALID_OPERATION"} ELSE {})
     IN  IF errs # {} /\ CheckGLErrorAborts(app)
           THEN gl_error' = errs /\ Abort
           ELSE /\ gl_error' = {}
                /\ \/ Continue(t)
                   \/ UsesSwapChain(app) /\ frame = "invalid" /\ Abort
                   \/ Cardinality(errs) > 1 /\ Abort
  /\ UNCHANGED <<frame, renderedAfterFailure>>
  /\ UNCHANGED <<badShaders, badPrograms, failedInit>>
  /\ UNCHANGED <<hostVars, trackVars, ctrlVars, audioVars>>
  /\ UNCHANGED wrapVars
  /\ UNCHANGED betaVars

\* frame.Submit(viewport_list_, head_view) (DistortOffscreenFramebufferToScreen
\* in ndk-beta): the frame goes to the display.
StepSubmit(t) ==
  /\ AtOp(t, "Submit")
  /\ renderedAfterFailure' = (renderedAfterFailure \/ failedInit)
  /\ frame' = "none"
  /\ fbound' = FALSE
  /\ Continue(t)
  /\ UNCHANGED <<hostVars, trackVars, ctrlVars, glVars, audioVars>>
  /\ UNCHANGED wrapVars
  /\ UNCHANGED betaVars

\* Controllers::Update.  ReconnectIfRequired: when GetControllerCount()
\* differs from controllers_.size() the list is rebuilt with one entry per
\* controller.  Then the input callbacks: a controller of the list reports
\* app button or grip down (OnGrabTarget) or up (OnReleaseTarget), or no
\* controller reports either.
StepControllersUpdate(t) ==
  /\ AtOp(t, "ControllersUpdate")
  /\ \E count \in 0..MaxControllers :
       /\ controllers' = count
       /\ \/ UNCHANGED target_held_
          \/ \E i \in 0..(count - 1) : \E down \in BOOLEAN :
               target_held_' = IF i = controller_on_target_index_
                                 THEN down ELSE target_held_
  /\ Continue(t)
  /\ UNCHANGED <<controller_on_target_index_, indexOutOfRange>>
  /\ UNCHANGED <<hostVars, trackVars, ctrlVars, glVars, audioVars, frameVars>>
  /\ UNCHANGED wrapVars

\* HelloVrBetaApp::DrawTarget: for a held target read
\* controllers_.GetController(controller_on_target_index_), an unchecked
\* controllers_[index] (out of range: the process crashes or goes on); then
\* IsPointingAtTarget(): unless the target is held the index becomes -1 or
\* the index of a controller of the list whose laser hits the target.
StepDrawTarget(t) ==
  /\ AtOp(t, "DrawTarget")
  /\ LET bad == /\ target_held_
                /\ controller_on_target_index_ >= 0
                /\ controller_on_target_index_ >= controllers
     IN  /\ indexOutOfRange' = (indexOutOfRange \/ bad)
         /\ Continue(t) \/ (bad /\ Abort)
  /\ IF target_held_
       THEN UNCHANGED controller_on_target_index_
       ELSE controller_on_target_index_' \in
              {0 - 1} \cup (0..(controllers - 1))
  /\ UNCHANGED <<controllers, target_held_>>
  /\ UNCHANGED <<hostVars, trackVars, ctrlVars, glVars, audioVars, frameVars>>
  /\ UNCHANGED wrapVars

\* Controllers::Pause: controllers_.clear().
StepClearControllers(t) ==
  /\ AtOp(t, "ClearControllers")
  /\ controllers' = 0
  /\ Continue(t)
  /\ UNCHANGED <<controller_on_target_index_, target_held_, indexOutOfRange>>
  /\ UNCHANGED <<hostVars, trackVars, ctrlVars, glVars, audioVars, frameVars>>
  /\ UNCHANGED wrapVars

\* The wrapper part of the state while an application runs.
WrapParked ==
  /\ cls = "none"
  /\ objs = [i \in ObjIds |-> Unborn]
  /\ nh = 0
  /\ dcount = [h \in Handles |-> 0]
  /\ wildDestroy = FALSE
  /\ callerOwned = {}
  /\ lastOp = "none"

\* The state after the application's constructor.  HelloVrApp and the
\* samples renderer read the viewer type and call
\* ResumeControllerApiAsNeeded(); Controllers' constructor creates and
\* initialises the ControllerApi; DemoApp leaves controller_api_ null.
AppInit ==
  /\ app \in Apps
  /\ pstate = "running"
  /\ cb = [t \in Threads |-> "none"] /\ step = [t \in Threads |-> 1]
  /\ resumed = FALSE /\ lifecycle = 0 /\ surfaces = 0 /\ frames = 0
  /\ surfaceReady = FALSE
  /\ gvr_api_initialized_ = FALSE /\ tracking = "initial"
  /\ viewer \in (IF app \in ViewerApps THEN {"CARDBOARD", "DAYDREAM"}
                                       ELSE {"NA"})
  /\ ctrl = (IF viewer = "DAYDREAM" \/ app = "HelloVrBeta"
               THEN "inited" ELSE "null")
  /\ ctrlResumed = (viewer = "DAYDREAM")
  /\ ctrlMisuse = FALSE /\ ctrlNullDeref = FALSE
  /\ badShaders = {} /\ badPrograms = {} /\ gl_error = {}
  /\ failedInit = FALSE
  /\ audio = "none" /\ threadsStarted = 0
  /\ frame = "none" /\ fbound = FALSE /\ renderedAfterFailure = FALSE
  /\ controllers = 0 /\ controller_on_target_index_ = 0 - 1
  /\ target_held_ = FALSE /\ indexOutOfRange = FALSE

AppNext ==
  \/ \E c \in Callbacks : Begin(c)
  \/ \E t \in Threads : End(t)
  \/ \E t \in Threads : StepLoadGLShader(t)
  \/ \E t \in Threads : StepLinkProgram(t)
  \/ \E t \in Threads : StepBuildProgram(t)
  \/ \E t \in Threads : StepCheckGLError(t)
  \/ \E t \in Threads : StepLoadAsset(t)
  \/ \E t \in Threads : StepCheckFeature(t)
  \/ \E t \in Threads : StepCtrlNew(t)
  \/ \E t \in Threads : StepCtrlInit(t)
  \/ \E t \in Threads : StepCtrlReset(t)
  \/ \E t \in Threads : StepCtrlResume(t)
  \/ \E t \in Threads : StepCtrlPause(t)
  \/ \E t \in Threads : StepCtrlUpdate(t)
  \/ \E t \in Threads : StepReadViewerType(t)
  \/ \E t \in Threads : StepResumeTracking(t)
  \/ \E t \in Threads : StepPauseTracking(t)
  \/ \E t \in Threads : StepSetInitialized(t)
  \/ \E t \in Threads : StepStartAudioThread(t)
  \/ AudioRun
  \/ \E t \in Threads : StepJoinAudio(t)
  \/ \E t \in Threads : StepAcquireFrame(t)
  \/ \E t \in Threads : StepBindDraw(t)
  \/ \E t \in Threads : StepSubmit(t)
  \/ \E t \in Threads : StepControllersUpdate(t)
  \/ \E t \in Threads : StepDrawTarget(t)
  \/ \E t \in Threads : StepClearControllers(t)

vars == <<wrapVars, appVars>>

\* Initial states: one part of the state is exercised, the other stays put.
InitWrap == WrapInit /\ AppParked
InitApp == AppInit /\ WrapParked

SpecWrap == InitWrap /\ [][WrapNext]_vars

SpecApp == InitApp /\ [][AppNext]_vars

\* ------------------------------------------------------------------------
\* Properties of the wrapper classes
\* ------------------------------------------------------------------------
Created == 1..nh
NoneAlive == \A i \in ObjIds : objs[i].st # "alive"
Holders(h) == {i \in ObjIds : objs[i].st = "alive" /\ objs[i].ptr = h}

\* The destroy discipline of an owning wrapper: no handle is destroyed twice,
\* no destroy call gets a pointer that is not a handle, a handle not yet
\* destroyed is held by exactly one live wrapper, and once every wrapper is
\* gone each created handle was destroyed exactly once.
DestroyedExactlyOnce ==
  /\ ~wildDestroy
  /\ \A h \in Created \ callerOwned :
       /\ dcount[h] <= 1
       /\ dcount[h] = 0 => Cardinality(Holders(h)) = 1
       /\ dcount[h] = 1 => Holders(h) = {}
       /\ NoneAlive => dcount[h] = 1

\* C1: for each owning wrapper class, over any sequence of construction,
\* move construction, move assignment and destruction, every created handle
\* is passed to its destroy function exactly once and never a second time.
C1_OwningWrappersDestroyOnce ==
  cls \in OwningClasses => DestroyedExactlyOnce

C1_Witness ==
  /\ cls \in OwningClasses
  /\ lastOp = "Destroy"
  /\ \A i \in ObjIds : objs[i].st = "dead"
  /\ nh = MaxHandles
  /\ \A h \in Created : dcount[h] = 1

\* C2: FramebufferSpec frees its gvr_framebuffer_spec on destruction: after
\* move-constructing B from A and destroying both, the spec is destroyed
\* exactly once, and the destroy function only ever gets null or a live spec.
C2_FramebufferSpecDestroyOnce ==
  cls = "FramebufferSpec" =>
    /\ ~wildDestroy
    /\ \A h \in Created :
         /\ dcount[h] <= 1
         /\ NoneAlive => dcount[h] = 1

\* C3: a GvrApi from WrapNonOwned never calls gvr_destroy on its context; a
\* GvrApi from Create calls it exactly once, when it is destroyed.
C3_GvrApiOwnership ==
  cls = "GvrApi" =>
    /\ \A h \in callerOwned : dcount[h] = 0
    /\ \A h \in Created \ callerOwned :
         /\ dcount[h] <= 1
         /\ dcount[h] = 0 <=>
              \E i \in ObjIds : /\ objs[i].st = "alive"
                                /\ objs[i].owned
                                /\ objs[i].ptr = h

C3_Witness ==
  /\ cls = "GvrApi"
  /\ lastOp = "Destroy"
  /\ \E i, j \in ObjIds :
       /\ objs[i].st = "dead" /\ objs[i].owned
       /\ objs[j].st = "dead" /\ ~objs[j].owned
  /\ \E h \in callerOwned : dcount[h] = 0
  /\ \E h \in Created \ callerOwned : dcount[h] = 1

\* C4: OffscreenFramebufferHandle never releases in its destructor;
\* gvr_release_offscreen_framebuffer is called only from Reset() or from a
\* move assignment into a handle that holds a framebuffer, and at most once
\* per created framebuffer.
C4_ReleaseOnlyByResetOrAssign ==
  [][cls = "OffscreenFramebufferHandle" =>
       /\ \A h \in Handles : dcount'[h] <= 1
       /\ \A h \in Handles :
            dcount'[h] # dcount[h] =>
              /\ lastOp' \in {"Reset", "MoveAssign"}
              /\ Holders(h) # {}
              /\ Holders(h)' = {}]_vars

C4_Witness ==
  /\ cls = "OffscreenFramebufferHandle"
  /\ lastOp = "MoveAssign"
  /\ \E i \in ObjIds : objs[i].st = "dead"
  /\ \E h \in Created : dcount[h] = 1
  /\ \E h \in Created : dcount[h] = 0 /\ Holders(h) = {}

\* ------------------------------------------------------------------------
\* Properties of the demo applications
\* ------------------------------------------------------------------------

\* C5: under every interleaving of the UI-thread and render-thread
\* callbacks, a ControllerApi method other than Init() is called only on an
\* object whose Init() has returned true.
C5_ControllerUsedOnlyAfterInit == ~ctrlMisuse

\* C6: however many times OnSurfaceCreated / InitializeGl runs, an
\* application starts at most one audio worker thread.
C6_AtMostOneAudioThread == threadsStarted <= 1

\* The surface was created again after the worker had finished, and the
\* start of the thread was skipped.
C6_Witness ==
  /\ surfaces >= 2
  /\ surfaceReady
  /\ audio = "done"
  /\ threadsStarted = 1

\* The destructor is waiting in join() for the running worker.
DestructorBlocked ==
  /\ pstate = "running"
  /\ cb["ui"] = "Destructor"
  /\ step["ui"] <= Len(Prog(app, "Destructor"))
  /\ audio = "running"

\* C7 (as stated): the audio worker is detached: the application never
\* joins it and its destructor never waits for it.
C7_WorkerDetachedNeverJoined == audio # "joined" /\ ~DestructorBlocked

\* C7 (amended): the audio worker is never detached: a destructor that has
\* completed has joined every worker that was started, so no worker is
\* running, or finished but not joined, once the application is destroyed.
C7_DestructorJoinsWorker ==
  pstate = "destroyed" => audio \in {"none", "joined"}

C7_Witness ==
  /\ pstate = "destroyed"
  /\ threadsStarted = 1
  /\ audio = "joined"

C9_FailFastBeforeFirstFrame == ~renderedAfterFailure

\* C10: a buffer of the frame returned by AcquireFrame() is bound and drawn
\* into only if the frame is valid.
C10_DrawOnlyOnValidFrame ==
  (UsesSwapChain(app) /\ fbound) => frame = "valid"

\* C11: in HelloVrApp, under every interleaving of OnResume / OnPause on the
\* UI thread with OnDrawFrame on the rendering thread, ProcessControllerInput
\* never calls through gvr_controller_api_ while it is null.
C11_NoNullControllerDeref == app = "HelloVr" => ~ctrlNullDeref

\* C12: destroying an application joins the audio thread if and only if one
\* was started and the destructor completes normally in both cases, also
\* when OnSurfaceCreated / InitializeGl was never called: the process never
\* terminates inside the destructor.
C12_DestructorCompletesNormally ==
  ~(pstate = "aborted" /\ cb["ui"] = "Destructor")

\* C13: in DemoApp (controller paint), whenever the most recent of OnResume
\* and OnPause is a completed OnResume and OnSurfaceCreated has completed,
\* ResumeTracking was called after the most recent OnPause (at least once if
\* there was none), whichever of OnResume and OnSurfaceCreated ran first:
\* the last tracking call made is ResumeTracking.
C13_TrackingResumedWhenResumed ==
  (/\ app = "ControllerPaint"
   /\ pstate = "running"
   /\ resumed /\ cb["ui"] = "none"
   /\ surfaceReady /\ cb["render"] = "none")
  => tracking = "resumed"

\* C14: while the most recent of OnResume and OnPause is an OnPause, the
\* controller API stays paused: between the return of an OnPause and the
\* next OnResume no ControllerApi::Resume() takes effect, also not from
\* OnSurfaceCreated or Controllers::Initialize running in that interval.
C14_ControllerStaysPaused ==
  (/\ pstate = "running"
   /\ lifecycle > 0 /\ ~resumed /\ cb["ui"] = "none")
  => ~ctrlResumed

\* C15: in HelloVrBetaApp, whenever DrawTarget calls
\* controllers_.GetController(controller_on_target_index_) for a held
\* target, the index is within 0..controllers_.size()-1, over every sequence
\* of grab, OnPause, OnResume and reconnection with another controller count.
C15_TargetControllerIndexInRange == ~indexOutOfRange

====
